---------------------------- MODULE Spec2Model ----------------------------
(***************************************************************************)
(* The embeddings sidecar of ECLIA (apps/memory/sidecar/server.py): the    *)
(* module-level Registry (_model, _DIM), the Hugging Face cache on disk,   *)
(* and the request handlers /health, /embed, /model/status,                *)
(* /model/download and /model/delete.  FastAPI runs the handlers (plain    *)
(* `def` functions) on a thread pool, so a handler is a sequence of steps, *)
(* one per access to the shared globals or to the file system, and the     *)
(* steps of different requests interleave.                                 *)
(***************************************************************************)
EXTENDS Integers, Sequences, FiniteSets, TLC

(***************************************************************************)
(* Bounds of the model.                                                    *)
(***************************************************************************)
\* Number of model loads (SentenceTransformer(...) calls) in one run.
MaxLoads == 2
\* Longest texts list of an /embed request.
MaxTexts == 1
\* Most entries of "images" in an answer of the image API.
MaxImages == 3

\* Worker threads of the pool that run handlers concurrently.
Threads == {"w1", "w2"}

(***************************************************************************)
(* Model identifiers.  A string is a sequence of chunks; "/" and " " are   *)
(* the characters the code looks at, "-" is the character replace() and    *)
(* the cache folder tag are built from, the other chunks are runs of       *)
(* characters the code never inspects.                                     *)
(***************************************************************************)
\* server.py:33, the default of ECLIA_EMBEDDINGS_MODEL
MODEL_NAME == <<"all-MiniLM-L6-v2">>
\* server.py:63, the provider prefix of the fallback check (without the "/")
DefaultProvider == <<"sentence-transformers">>
\* Another identifier, of the same model: the name with its provider.
QualifiedName == DefaultProvider \o <<"/">> \o MODEL_NAME

\* The names requests carry (ModelActionRequest.name, ?name=), untrimmed.
RequestNames ==
    { MODEL_NAME, <<" ">> \o MODEL_NAME \o <<" ">>, QualifiedName, <<" ">>, << >> }

\* str.strip(): drop leading and trailing whitespace.
RECURSIVE LStrip(_)
LStrip(s) == IF s # << >> /\ Head(s) = " " THEN LStrip(Tail(s)) ELSE s
RECURSIVE RStrip(_)
RStrip(s) ==
    IF s # << >> /\ s[Len(s)] = " " THEN RStrip(SubSeq(s, 1, Len(s) - 1)) ELSE s
Strip(s) == RStrip(LStrip(s))

\* model_name.replace("/", "--")
RECURSIVE Replace(_)
Replace(s) ==
    IF s = << >> THEN << >>
    ELSE (IF Head(s) = "/" THEN <<"-", "-">> ELSE <<Head(s)>>) \o Replace(Tail(s))

\* "/" in model_name
HasSlash(s) == \E i \in 1..Len(s) : s[i] = "/"

\* _model_cache_path: the folder below the hub cache directory.
_model_cache_path(model_name) == <<"models", "-", "-">> \o Replace(model_name)

\* f"sentence-transformers/{model_name}"
Prefixed(model_name) == DefaultProvider \o <<"/">> \o model_name

(***************************************************************************)
(* The cache on disk.  A cache folder is absent, is a folder whose         *)
(* snapshots subfolder has no entry ("nosnap"), or holds a snapshot.       *)
(***************************************************************************)
FolderStates == {"absent", "nosnap", "snap"}
CachePaths == { _model_cache_path(MODEL_NAME), _model_cache_path(QualifiedName) }

(***************************************************************************)
(* Loaded models.  A handle has an identity, the output width of its       *)
(* model, and whether get_sentence_embedding_dimension() fails on it       *)
(* (it returns None for a model without a pooling or dense module, and     *)
(* int(None) raises).  None is Python's None.                              *)
(***************************************************************************)
None == [id |-> 0, width |-> 0, bad |-> FALSE]
\* The true output width of the configured model (384 for all-MiniLM-L6-v2).
ModelDim == 2
Handle(i, b) == [id |-> i, width |-> ModelDim, bad |-> b]

VARIABLES
    phase,      \* "boot" before the module body ran, then "serving" or "crashed"
    fs,         \* the hub cache: cache folder -> FolderStates
    _model,     \* server.py:71, the active handle or None
    _DIM,       \* server.py:72
    nextId,     \* identity of the next handle SentenceTransformer() returns
    pc,         \* per worker: "idle", the source line it is about to run, or "done"
    fr,         \* per worker: the locals of the handler it runs
    res,        \* per worker: the response it sends, while pc is "done"
    dl,         \* history: progress of the last hot-swap no delete has undone
    del,        \* history: progress of the last unload of an active model no download has undone
    gh,         \* per worker: history of the request it runs
    cli         \* one run of sd-t2i.py: its arguments, position, files and output

vars == <<phase, fs, _model, _DIM, nextId, pc, fr, res, dl, del, gh, cli>>


(***************************************************************************)
(* Cache Inspector.                                                        *)
(***************************************************************************)
\* State of a cache folder; folders outside CachePaths do not exist.
Folder(path) == IF path \in DOMAIN fs THEN fs[path] ELSE "absent"

\* _check(name): snapshots.is_dir() and any(snapshots.iterdir())
_check(name) == Folder(_model_cache_path(name)) = "snap"

\* The inspector without the fallback to the provider-prefixed folder.
_is_model_cached_OwnPathOnly(model_name) == _check(model_name)

\* _is_model_cached(model_name), when no file system call raises
_is_model_cached(model_name) ==
    \/ _check(model_name)
    \/ ~HasSlash(model_name) /\ _check(Prefixed(model_name))

\* snapshots.iterdir() runs (and may raise OSError) where snapshots is a folder.
ListsFolder(name) == Folder(_model_cache_path(name)) # "absent"
CacheReadMayRaise(model_name) ==
    \/ ListsFolder(model_name)
    \/ ~_check(model_name) /\ ~HasSlash(model_name) /\ ListsFolder(Prefixed(model_name))

(***************************************************************************)
(* The inference library, seen from the handlers.                          *)
(***************************************************************************)
\* The repository SentenceTransformer(name) fetches: short names get the
\* default provider (server.py:61).
Resolve(name) == IF HasSlash(name) THEN name ELSE Prefixed(name)

\* Cache f after SentenceTransformer(name) returned a model.
LoadEffect(f, name) == [f EXCEPT ![_model_cache_path(Resolve(name))] = "snap"]

\* The cache after SentenceTransformer(name) returned a model.
CacheAfterLoad(name) == LoadEffect(fs, name)

\* What shutil.rmtree does: it removes the tree, or raises having removed
\* nothing, or raises having removed part of it.
RemovalOutcomes == {"removed", "failed", "partial"}

\* A removal that clears the snapshots first and the folder on the next call.
RemoveEffect_SnapshotsFirst(f, name, outcome) ==
    LET cache_path == _model_cache_path(name) IN
    IF cache_path \notin DOMAIN f \/ f[cache_path] = "absent" \/ outcome = "failed"
      THEN f
      ELSE [f EXCEPT ![cache_path] = IF f[cache_path] = "snap" THEN "nosnap"
                                     ELSE IF outcome = "removed" THEN "absent"
                                     ELSE "nosnap"]

\* Cache f after lines 174-175 of a delete of name: if cache_path.is_dir():
\* shutil.rmtree(cache_path)
RemoveEffect(f, name, outcome) ==
    LET cache_path == _model_cache_path(name) IN
    IF cache_path \notin DOMAIN f \/ f[cache_path] = "absent" \/ outcome = "failed"
      THEN f
      ELSE [f EXCEPT ![cache_path] = IF outcome = "removed" THEN "absent"
                                     ELSE "nosnap"]

(***************************************************************************)
(* Frames, responses and request histories.                                *)
(***************************************************************************)
NoFrame == [op |-> "none", name |-> << >>, n |-> 0, normalize |-> FALSE,
            m |-> None, dim |-> 0]
NoHistory == [removed |-> FALSE, wrote |-> FALSE, since |-> "none", tested |-> 0]
NoResponse == [op |-> "none", status |-> "none", ok |-> FALSE, model |-> << >>,
               dim |-> 0, loaded |-> FALSE, cached |-> FALSE, embeddings |-> 0,
               by |-> 0, error |-> ""]

\* A structured response of handler op.
Response(op, ok, model) ==
    [NoResponse EXCEPT !.op = op, !.status = "result", !.ok = ok, !.model = model]
\* The handler raised: the exception leaves the handler.
Escaped(op, error) ==
    [NoResponse EXCEPT !.op = op, !.status = "exception", !.error = error]

\* The handler on worker t ends with response r.
Return(t, r) ==
    /\ res' = [res EXCEPT ![t] = r]
    /\ pc' = [pc EXCEPT ![t] = "done"]
    /\ fr' = [fr EXCEPT ![t] = NoFrame]
    /\ cli' = cli

\* Worker t goes on to line l with its locals f.
Goto(t, l, f) ==
    /\ pc' = [pc EXCEPT ![t] = l]
    /\ fr' = [fr EXCEPT ![t] = f]
    /\ res' = [res EXCEPT ![t] = NoResponse]
    /\ cli' = cli

\* A request reaches worker t, which runs no handler.
Accepts(t) == phase = "serving" /\ pc[t] \in {"idle", "done"}

(***************************************************************************)
(* sd-t2i.py: the arguments and environment of one run of main().          *)
(***************************************************************************)
EXIT_ARG == 2
EXIT_RUN == 1

\* What --template names: no such file, a file that is not JSON, JSON that is
\* not an object, an object without the hires keys, one with the hires keys
\* whose hr_additional_modules is a number, or a full hires template.
Templates == {"missing", "notjson", "notdict", "plain", "badmodules", "hires"}

\* The parsed JSON body of the API's answer: whether it is an object, its
\* "error" and "detail" keys, and the number of entries of "images".
ApiResponses ==
    [dict : {TRUE}, error : BOOLEAN, detail : BOOLEAN, images : 0 .. MaxImages]
      \cup {[dict |-> FALSE, error |-> FALSE, detail |-> FALSE, images |-> 0]}
NoApiResponse == [dict |-> FALSE, error |-> FALSE, detail |-> FALSE, images |-> 0]

\* No run of the script.
NoRun == [pc |-> "off", argv |-> FALSE, template |-> "missing", upscale |-> FALSE,
          http |-> "none", r |-> NoApiResponse, saved |-> << >>,
          raised |-> FALSE, stdout |-> << >>, exit |-> -1]

\* main(argv) is entered; argv parses or not.
Run(argv, template, upscale) ==
    [NoRun EXCEPT !.pc = "L235", !.argv = argv, !.template = template,
                  !.upscale = upscale]

Init ==
    /\ phase = "boot"
    /\ fs \in [CachePaths -> FolderStates]
    /\ _model = None
    /\ _DIM = 0
    /\ nextId = 1
    /\ pc = [t \in Threads |-> "idle"]
    /\ fr = [t \in Threads |-> NoFrame]
    /\ res = [t \in Threads |-> NoResponse]
    /\ dl = "none"
    /\ del = "none"
    /\ gh = [t \in Threads |-> NoHistory]
    /\ cli = NoRun

\* A startup that never loads: the model is left to /model/download.
Startup_SkipsLoad ==
    /\ phase = "boot"
    /\ UNCHANGED <<pc, fr, res, dl, del, gh, cli>>
    /\ \/ /\ CacheReadMayRaise(MODEL_NAME)
          /\ phase' = "crashed"
       \/ phase' = "serving"
    /\ UNCHANGED <<fs, _model, _DIM, nextId>>

\* A startup that catches a failing load and serves Unloaded.
Startup_FallsBack ==
    /\ phase = "boot"
    /\ UNCHANGED <<pc, fr, res, dl, del, gh, cli>>
    /\ \/ /\ CacheReadMayRaise(MODEL_NAME)
          /\ phase' = "crashed"
          /\ UNCHANGED <<fs, _model, _DIM, nextId>>
       \/ /\ ~_is_model_cached(MODEL_NAME)
          /\ phase' = "serving"
          /\ UNCHANGED <<fs, _model, _DIM, nextId>>
       \/ /\ _is_model_cached(MODEL_NAME)
          /\ \/ /\ phase' = "serving"
                /\ UNCHANGED <<fs, _model, _DIM, nextId>>
             \/ \E b \in BOOLEAN :
                  LET m == Handle(nextId, b) IN
                  /\ fs' = CacheAfterLoad(MODEL_NAME)
                  /\ nextId' = nextId + 1
                  /\ IF m.bad
                       THEN phase' = "serving" /\ UNCHANGED <<_model, _DIM>>
                       ELSE phase' = "serving" /\ _model' = m /\ _DIM' = m.width

(***************************************************************************)
(* Startup: the module body, server.py:71-79.  An exception here ends the  *)
(* import, so the service never serves.                                    *)
(***************************************************************************)
Startup ==
    /\ phase = "boot"
    /\ UNCHANGED <<pc, fr, res, dl, del, gh, cli>>
    /\ \/ /\ CacheReadMayRaise(MODEL_NAME)
          /\ phase' = "crashed"
          /\ UNCHANGED <<fs, _model, _DIM, nextId>>
       \/ /\ ~_is_model_cached(MODEL_NAME)
          /\ phase' = "serving"
          /\ UNCHANGED <<fs, _model, _DIM, nextId>>
       \/ /\ _is_model_cached(MODEL_NAME)
          /\ \/ /\ phase' = "crashed"      \* SentenceTransformer raises
                /\ UNCHANGED <<fs, _model, _DIM, nextId>>
             \/ \E b \in BOOLEAN :
                  LET m == Handle(nextId, b) IN
                  /\ fs' = CacheAfterLoad(MODEL_NAME)
                  /\ nextId' = nextId + 1
                  /\ _model' = m
                  /\ IF m.bad
                       THEN phase' = "crashed" /\ _DIM' = _DIM
                       ELSE phase' = "serving" /\ _DIM' = m.width

\* name == MODEL_NAME, the test of lines 157 and 177
IsConfigured_CacheEquivalent(name) == Resolve(name) = Resolve(MODEL_NAME)
IsConfigured(name) == name = MODEL_NAME

(***************************************************************************)
(* Request histories: what the properties about "after a successful       *)
(* delete" and "after a successful download" need to know of the past.     *)
(***************************************************************************)
\* The histories once the requests issued after an event of `kind` lose that mark.
Forget(kind) ==
    [u \in Threads |-> IF gh[u].since = kind THEN [gh[u] EXCEPT !.since = "none"]
                       ELSE gh[u]]
\* The history of a worker that has sent its response.
Closed(g, t) == [g EXCEPT ![t] = NoHistory]

(***************************************************************************)
(* GET /health, server.py:110-119.  The dict display evaluates "dim": _DIM *)
(* before "model_loaded": _model is not None.                              *)
(***************************************************************************)
BeginHealth(t) ==
    /\ Accepts(t)
    /\ Goto(t, "L116", [NoFrame EXCEPT !.op = "health"])
    /\ gh' = [gh EXCEPT ![t] = [NoHistory EXCEPT
                !.since = IF dl = "returned" THEN "dl" ELSE "none"]]
    /\ UNCHANGED <<phase, fs, _model, _DIM, nextId, dl, del>>

HealthL116(t) ==
    /\ pc[t] = "L116"
    /\ Goto(t, "L117", [fr[t] EXCEPT !.dim = _DIM])
    /\ UNCHANGED <<phase, fs, _model, _DIM, nextId, dl, del, gh>>

HealthL117(t) ==
    /\ pc[t] = "L117"
    /\ Return(t, [Response("health", TRUE, MODEL_NAME) EXCEPT
                    !.dim = fr[t].dim, !.loaded = (_model # None)])
    /\ gh' = Closed(gh, t)
    /\ UNCHANGED <<phase, fs, _model, _DIM, nextId, dl, del>>

(***************************************************************************)
(* POST /embed, server.py:122-132.                                         *)
(***************************************************************************)
\* The degraded shape of line 125.
Degraded == [Response("embed", FALSE, MODEL_NAME) EXCEPT !.dim = 0, !.embeddings = 0]

BeginEmbed(t) ==
    /\ Accepts(t)
    /\ \E n \in 0..MaxTexts, normalize \in BOOLEAN :
         Goto(t, "L124", [NoFrame EXCEPT !.op = "embed", !.n = n,
                                         !.normalize = normalize])
    /\ gh' = [gh EXCEPT ![t] = [NoHistory EXCEPT
                !.since = IF del = "returned" THEN "del" ELSE "none"]]
    /\ UNCHANGED <<phase, fs, _model, _DIM, nextId, dl, del>>

\* Lines 124-129 with the two tests in the other order: the empty list first.
EmbedL124_TextsFirst(t) ==
    /\ pc[t] = "L124"
    /\ IF fr[t].n = 0
         THEN /\ Return(t, [Response("embed", TRUE, MODEL_NAME) EXCEPT
                              !.dim = _DIM, !.embeddings = 0])
              /\ gh' = Closed(gh, t)
         ELSE IF _model = None
           THEN Return(t, Degraded) /\ gh' = Closed(gh, t)
           ELSE /\ Goto(t, "L131", fr[t])
                /\ gh' = [gh EXCEPT ![t].tested = _model.id]
    /\ UNCHANGED <<phase, fs, _model, _DIM, nextId, dl, del>>

\* if _model is None: return degraded; then texts = [...]; if not texts: ...
EmbedL124(t) ==
    /\ pc[t] = "L124"
    /\ IF _model = None
         THEN Return(t, Degraded) /\ gh' = Closed(gh, t)
         ELSE /\ Goto(t, IF fr[t].n = 0 THEN "L129" ELSE "L131", fr[t])
              /\ gh' = [gh EXCEPT ![t].tested = _model.id]
    /\ UNCHANGED <<phase, fs, _model, _DIM, nextId, dl, del>>

\* return {"ok": True, ..., "dim": _DIM, "embeddings": []}
EmbedL129(t) ==
    /\ pc[t] = "L129"
    /\ Return(t, [Response("embed", TRUE, MODEL_NAME) EXCEPT
                    !.dim = _DIM, !.embeddings = 0])
    /\ gh' = Closed(gh, t)
    /\ UNCHANGED <<phase, fs, _model, _DIM, nextId, dl, del>>

\* vecs = _model.encode(...): the global is read again; None has no encode,
\* and encode may raise; neither is caught.
EmbedL131(t) ==
    /\ pc[t] = "L131"
    /\ \/ /\ _model = None
          /\ Return(t, Escaped("embed", "AttributeError"))
       \/ /\ _model # None
          /\ \/ Return(t, Escaped("embed", "encode"))
             \/ Return(t, [Response("embed", TRUE, MODEL_NAME) EXCEPT
                             !.dim = _model.width, !.embeddings = fr[t].n,
                             !.by = _model.id])
    /\ gh' = Closed(gh, t)
    /\ UNCHANGED <<phase, fs, _model, _DIM, nextId, dl, del>>

(***************************************************************************)
(* GET /model/status, server.py:140-144.  Query(min_length=1) rejects the  *)
(* empty string before the handler runs; the handler then trims.           *)
(***************************************************************************)
BeginStatus(t) ==
    /\ Accepts(t)
    /\ \E raw \in RequestNames :
         /\ Len(raw) >= 1
         /\ Goto(t, "L143", [NoFrame EXCEPT !.op = "status", !.name = Strip(raw)])
    /\ gh' = [gh EXCEPT ![t] = NoHistory]
    /\ UNCHANGED <<phase, fs, _model, _DIM, nextId, dl, del>>

StatusL143(t) ==
    /\ pc[t] = "L143"
    /\ \/ /\ CacheReadMayRaise(fr[t].name)
          /\ Return(t, Escaped("status", "OSError"))
       \/ Return(t, [Response("status", TRUE, fr[t].name) EXCEPT
                       !.cached = _is_model_cached(fr[t].name)])
    /\ gh' = Closed(gh, t)
    /\ UNCHANGED <<phase, fs, _model, _DIM, nextId, dl, del>>

(***************************************************************************)
(* POST /model/download, server.py:147-162.                                *)
(***************************************************************************)
NameRequired(op) == [Response(op, FALSE, << >>) EXCEPT !.error = "name is required"]
Failure(op, name, error) == [Response(op, FALSE, name) EXCEPT !.error = error]

\* A download that releases the active model before it loads the new one.
BeginDownload_UnloadFirst(t) ==
    /\ Accepts(t)
    /\ \E raw \in RequestNames :
         IF Strip(raw) = << >>
           THEN Return(t, NameRequired("download")) /\ UNCHANGED <<_model, _DIM>>
           ELSE /\ nextId + Cardinality({u \in Threads : pc[u] = "L155"}) <= MaxLoads
                /\ Goto(t, "L155", [NoFrame EXCEPT !.op = "download",
                                                   !.name = Strip(raw)])
                /\ IF IsConfigured(Strip(raw))
                     THEN _model' = None /\ _DIM' = 0
                     ELSE UNCHANGED <<_model, _DIM>>
    /\ gh' = [gh EXCEPT ![t] = NoHistory]
    /\ UNCHANGED <<phase, fs, nextId, dl, del>>

\* name = req.name.strip(); if not name: return {"ok": False, ...}
BeginDownload(t) ==
    /\ Accepts(t)
    /\ \E raw \in RequestNames :
         IF Strip(raw) = << >>
           THEN Return(t, NameRequired("download"))
           ELSE /\ nextId + Cardinality({u \in Threads : pc[u] = "L155"}) <= MaxLoads
                /\ Goto(t, "L155", [NoFrame EXCEPT !.op = "download",
                                                   !.name = Strip(raw)])
    /\ gh' = [gh EXCEPT ![t] = NoHistory]
    /\ UNCHANGED <<phase, fs, _model, _DIM, nextId, dl, del>>

\* m = SentenceTransformer(name); for another name than the configured one
\* line 160 follows at once and touches no shared state.
DownloadL155(t) ==
    /\ pc[t] = "L155"
    /\ \/ /\ Return(t, Failure("download", fr[t].name, "load"))
          /\ gh' = Closed(gh, t)
          /\ UNCHANGED <<fs, nextId>>
       \/ \E b \in BOOLEAN :
            LET m == Handle(nextId, b) IN
            /\ fs' = CacheAfterLoad(fr[t].name)
            /\ nextId' = nextId + 1
            /\ IF IsConfigured(fr[t].name)
                 THEN Goto(t, "L158", [fr[t] EXCEPT !.m = m]) /\ gh' = gh
                 ELSE /\ gh' = Closed(gh, t)
                      /\ IF m.bad
                           THEN Return(t, Failure("download", fr[t].name, "dimension"))
                           ELSE Return(t, [Response("download", TRUE, fr[t].name)
                                             EXCEPT !.cached = TRUE, !.dim = m.width])
    /\ UNCHANGED <<phase, _model, _DIM, dl, del>>

\* _model = m
DownloadL158(t) ==
    /\ pc[t] = "L158"
    /\ _model' = fr[t].m
    /\ Goto(t, "L159", fr[t])
    /\ IF fr[t].m.bad
         THEN /\ gh' = [gh EXCEPT ![t].wrote = TRUE]
              /\ del' = IF del = "unloading" THEN "none" ELSE del
              /\ dl' = dl
         ELSE /\ gh' = [Forget("del") EXCEPT ![t].wrote = TRUE]
              /\ del' = "none"
              /\ dl' = IF dl = "returned" THEN dl ELSE "swapping"
    /\ UNCHANGED <<phase, fs, _DIM, nextId>>

\* Line 159 without the assignment to _DIM.
DownloadL159_KeepsDim(t) ==
    /\ pc[t] = "L159"
    /\ IF fr[t].m.bad
         THEN /\ Return(t, Failure("download", fr[t].name, "dimension"))
              /\ dl' = dl
         ELSE /\ Return(t, [Response("download", TRUE, fr[t].name)
                              EXCEPT !.cached = TRUE, !.dim = fr[t].m.width])
              /\ dl' = IF dl = "none" THEN "none" ELSE "returned"
    /\ gh' = Closed(gh, t)
    /\ UNCHANGED <<phase, fs, _model, _DIM, nextId, del>>

\* _DIM = int(m.get_sentence_embedding_dimension()), then the return of line 160
DownloadL159(t) ==
    /\ pc[t] = "L159"
    /\ IF fr[t].m.bad
         THEN /\ Return(t, Failure("download", fr[t].name, "dimension"))
              /\ UNCHANGED <<_DIM, dl>>
         ELSE /\ _DIM' = fr[t].m.width
              /\ Return(t, [Response("download", TRUE, fr[t].name)
                              EXCEPT !.cached = TRUE, !.dim = fr[t].m.width])
              /\ dl' = IF dl = "none" THEN "none" ELSE "returned"
    /\ gh' = Closed(gh, t)
    /\ UNCHANGED <<phase, fs, _model, nextId, del>>

(***************************************************************************)
(* POST /model/delete, server.py:165-182.                                  *)
(***************************************************************************)
BeginDelete(t) ==
    /\ Accepts(t)
    /\ \E raw \in RequestNames :
         IF Strip(raw) = << >>
           THEN Return(t, NameRequired("delete"))
           ELSE Goto(t, "L174", [NoFrame EXCEPT !.op = "delete", !.name = Strip(raw)])
    /\ gh' = [gh EXCEPT ![t] = NoHistory]
    /\ UNCHANGED <<phase, fs, _model, _DIM, nextId, dl, del>>

\* After lines 174-175: unload the configured model, or return.
AfterRemoval(t, removed) ==
    IF IsConfigured(fr[t].name)
      THEN /\ Goto(t, "L178", fr[t])
           /\ gh' = [gh EXCEPT ![t].removed = removed]
      ELSE /\ Return(t, [Response("delete", TRUE, fr[t].name) EXCEPT !.cached = FALSE])
           /\ gh' = Closed(gh, t)

\* if cache_path.is_dir(): shutil.rmtree(cache_path)
DeleteL174(t) ==
    /\ pc[t] = "L174"
    /\ LET cache_path == _model_cache_path(fr[t].name) IN
       IF Folder(cache_path) # "absent"
         THEN \/ /\ fs' = RemoveEffect(fs, fr[t].name, "removed")
                 /\ AfterRemoval(t, TRUE)
              \/ /\ \E outcome \in RemovalOutcomes \ {"removed"} :
                      fs' = RemoveEffect(fs, fr[t].name, outcome)
                 /\ Return(t, Failure("delete", fr[t].name, "rmtree"))
                 /\ gh' = Closed(gh, t)
         ELSE /\ fs' = fs
              /\ AfterRemoval(t, FALSE)
    /\ UNCHANGED <<phase, _model, _DIM, nextId, dl, del>>

\* _model = None
DeleteL178(t) ==
    /\ pc[t] = "L178"
    /\ _model' = None
    /\ Goto(t, "L179", fr[t])
    /\ gh' = [Forget("dl") EXCEPT ![t].wrote = TRUE]
    /\ dl' = "none"
    /\ del' = IF del = "returned" \/ _model = None THEN del ELSE "unloading"
    /\ UNCHANGED <<phase, fs, _DIM, nextId>>

\* _DIM = 0, then the return of line 180
DeleteL179(t) ==
    /\ pc[t] = "L179"
    /\ _DIM' = 0
    /\ Return(t, [Response("delete", TRUE, fr[t].name) EXCEPT !.cached = FALSE])
    /\ gh' = Closed(Forget("dl"), t)
    /\ dl' = "none"
    /\ del' = IF del = "none" THEN "none" ELSE "returned"
    /\ UNCHANGED <<phase, fs, _model, nextId>>

(***************************************************************************)
(* sd-t2i.py main(), lines 224-292, one action per try block.              *)
(***************************************************************************)
sidecar == <<phase, fs, _model, _DIM, nextId, pc, fr, res, dl, del, gh>>

\* return code
Exits(code) ==
    /\ cli' = [cli EXCEPT !.pc = "exit", !.exit = code]
    /\ UNCHANGED sidecar

\* main goes on to line l.
Proceeds(l) ==
    /\ cli' = [cli EXCEPT !.pc = l]
    /\ UNCHANGED sidecar

\* Lines 235-238: argparse exits on an argument error.
ParseArgs ==
    /\ cli.pc = "L235"
    /\ IF cli.argv THEN Proceeds("L240") ELSE Exits(EXIT_ARG)

\* Lines 240-247: resolve_template_path raises FileNotFoundError.
ResolveTemplate ==
    /\ cli.pc = "L240"
    /\ IF cli.template = "missing" THEN Exits(EXIT_ARG) ELSE Proceeds("L249")

\* Lines 249-259: load_json raises ValueError, apply_upscale_toggle raises
\* KeyError or TypeError.
BuildPayload ==
    /\ cli.pc = "L249"
    /\ IF \/ cli.template \in {"notjson", "notdict"}
          \/ cli.upscale /\ cli.template \in {"plain", "badmodules"}
         THEN Exits(EXIT_ARG)
         ELSE Proceeds("L263")

\* Lines 263-268: the request fails, the body is empty or not JSON, or the
\* body parses to r.
Request ==
    /\ cli.pc = "L263"
    /\ \/ \E failure \in {"http", "nobody", "nonjson"} :
            /\ cli' = [cli EXCEPT !.pc = "exit", !.exit = EXIT_RUN, !.http = failure]
            /\ UNCHANGED sidecar
       \/ \E r \in ApiResponses :
            /\ cli' = [cli EXCEPT !.pc = "L270", !.http = "ok", !.r = r]
            /\ UNCHANGED sidecar

\* Lines 270-278: an API error, or no images.
CheckResponse ==
    /\ cli.pc = "L270"
    /\ LET r == cli.r
           images == IF r.dict THEN r.images ELSE 0 IN
       IF r.dict /\ (r.error \/ (r.detail /\ r.images = 0))
         THEN Exits(EXIT_RUN)
         ELSE IF images = 0 THEN Exits(EXIT_RUN)
         ELSE Proceeds("L281")

\* The file save_images writes for image i of n: out_path (0) for a single
\* image, stem_i (i + 1) otherwise.
ImageFile(i, n) == IF n = 1 THEN 0 ELSE i + 1

\* save_images that prints each path as it writes the file.
SaveImage_PrintsAsItSaves ==
    /\ cli.pc = "L281"
    /\ LET n == cli.r.images
           i == Len(cli.saved) IN
       IF i = n
         THEN Proceeds("L286")
         ELSE \/ /\ cli' = [cli EXCEPT !.saved = Append(@, ImageFile(i, n)),
                                        !.stdout = Append(@, ImageFile(i, n))]
                 /\ UNCHANGED sidecar
              \/ /\ cli' = [cli EXCEPT !.pc = "exit", !.exit = EXIT_RUN,
                                        !.raised = TRUE]
                 /\ UNCHANGED sidecar

\* Lines 280-284 with save_images (207-221): one step per image; mkdir,
\* the base64 decoding or the write may raise, leaving the files written
\* so far.
SaveImage ==
    /\ cli.pc = "L281"
    /\ LET n == cli.r.images
           i == Len(cli.saved) IN
       IF i = n
         THEN Proceeds("L286")
         ELSE \/ /\ cli' = [cli EXCEPT !.saved = Append(@, ImageFile(i, n))]
                 /\ UNCHANGED sidecar
              \/ /\ cli' = [cli EXCEPT !.pc = "exit", !.exit = EXIT_RUN,
                                        !.raised = TRUE]
                 /\ UNCHANGED sidecar

\* Lines 286-292: one absolute path per saved file, then return 0.
PrintPath ==
    /\ cli.pc = "L286"
    /\ LET k == Len(cli.stdout) IN
       IF k < Len(cli.saved)
         THEN /\ cli' = [cli EXCEPT !.stdout = Append(@, cli.saved[k + 1])]
              /\ UNCHANGED sidecar
         ELSE Exits(0)

InitCli ==
    /\ phase = "boot"
    /\ fs = [p \in CachePaths |-> "absent"]
    /\ _model = None
    /\ _DIM = 0
    /\ nextId = 1
    /\ pc = [t \in Threads |-> "idle"]
    /\ fr = [t \in Threads |-> NoFrame]
    /\ res = [t \in Threads |-> NoResponse]
    /\ dl = "none"
    /\ del = "none"
    /\ gh = [t \in Threads |-> NoHistory]
    /\ cli \in {Run(argv, template, upscale) :
                   argv \in BOOLEAN, template \in Templates, upscale \in BOOLEAN}

NextCli ==
    \/ ParseArgs
    \/ ResolveTemplate
    \/ BuildPayload
    \/ Request
    \/ CheckResponse
    \/ SaveImage
    \/ PrintPath

SpecCli == InitCli /\ [][NextCli]_vars

(***************************************************************************)
(* The service.                                                            *)
(***************************************************************************)
Next ==
    \/ Startup
    \/ \E t \in Threads :
         \/ BeginHealth(t) \/ HealthL116(t) \/ HealthL117(t)
         \/ BeginEmbed(t) \/ EmbedL124(t) \/ EmbedL129(t) \/ EmbedL131(t)
         \/ BeginStatus(t) \/ StatusL143(t)
         \/ BeginDownload(t) \/ DownloadL155(t) \/ DownloadL158(t) \/ DownloadL159(t)
         \/ BeginDelete(t) \/ DeleteL174(t) \/ DeleteL178(t) \/ DeleteL179(t)

Spec == Init /\ [][Next]_vars

\* The service from process start for as long as no /model/download and no
\* /model/delete request arrives.
NextStart ==
    \/ Startup
    \/ \E t \in Threads :
         \/ BeginHealth(t) \/ HealthL116(t) \/ HealthL117(t)
         \/ BeginEmbed(t) \/ EmbedL124(t) \/ EmbedL129(t) \/ EmbedL131(t)
         \/ BeginStatus(t) \/ StatusL143(t)

SpecStart == Init /\ [][NextStart]_vars

(***************************************************************************)
(* Properties.                                                             *)
(***************************************************************************)
\* Worker t takes a step of the handler it runs.
Steps(t) == pc[t] \notin {"idle", "done"} /\ pc'[t] # pc[t]
\* Worker t ends its handler in this step.
Ends(t) == Steps(t) /\ pc'[t] = "done"
\* The Registry is left as it was.
RegistryKept == _model' = _model /\ _DIM' = _DIM

\* C1: a delete(name) whose cache path does not exist returns ok=true,
\* cached=false and leaves the Registry (_model, _DIM) as it was, for every
\* name, the configured one included.
C1_DeleteOfAbsentPathKeepsRegistry ==
    [][\A t \in Threads :
         /\ (pc[t] = "L174" /\ Steps(t)
               /\ Folder(_model_cache_path(fr[t].name)) = "absent" /\ Ends(t))
              => res'[t].ok /\ ~res'[t].cached
         /\ (fr[t].op = "delete" /\ Steps(t) /\ pc[t] # "L174" /\ ~gh[t].removed)
              => RegistryKept]_vars

\* C2: a download or delete that ends in failure has left the Registry in
\* its prior state: it has written neither _model nor _DIM.
C2_FailedActionKeepsRegistry ==
    [][\A t \in Threads :
         (fr[t].op \in {"download", "delete"} /\ Ends(t) /\ ~res'[t].ok)
           => ~gh[t].wrote /\ RegistryKept]_vars

\* C3: no /health response pairs a loaded model with dimension 0 or an
\* absent model with a positive dimension, and no successful /embed response
\* carries dimension 0 (here with a fully initialized handle in the Registry).
C3_ResponsesSeeConsistentPair ==
    \A t \in Threads :
      (pc[t] = "done" /\ ~_model.bad) =>
        /\ res[t].op = "health" => (res[t].loaded <=> res[t].dim > 0)
        /\ (res[t].op = "embed" /\ res[t].ok) => res[t].dim > 0

\* C4 as stated: embed with an empty texts list returns ok=true with an empty
\* vector sequence in every Registry state.
C4_EmptyEmbedAlwaysOk ==
    [][\A t \in Threads :
         (fr[t].op = "embed" /\ fr[t].n = 0 /\ Ends(t))
           => res'[t].ok /\ res'[t].embeddings = 0]_vars

\* C4 amended: embed with an empty texts list returns a structured result
\* with an empty vector sequence for every normalize; it is ok=true with
\* dim=_DIM when the Registry holds a handle at the test of line 124, and the
\* degraded shape ok=false, dim=0 when the Registry is Unloaded there.
C4_EmptyEmbedOkWhenLoaded ==
    [][\A t \in Threads :
         (fr[t].op = "embed" /\ fr[t].n = 0 /\ Steps(t)) =>
           /\ Ends(t) => res'[t].status = "result" /\ res'[t].embeddings = 0
           /\ (pc[t] = "L124" /\ _model = None) => Ends(t) /\ res'[t] = Degraded
           /\ (pc[t] = "L124" /\ _model # None) => ~Ends(t)
           /\ pc[t] # "L124" => Ends(t) /\ res'[t].ok /\ res'[t].dim = _DIM]_vars

\* An embed request with no texts was answered ok=true with no vectors.
C4_Witness ==
    \E t \in Threads :
      pc[t] = "done" /\ res[t].op = "embed" /\ res[t].ok /\ res[t].embeddings = 0

\* C5: the Registry becomes Unloaded only in a step of a delete that has
\* removed the cache folder; a delete whose removal failed, or that removed
\* nothing, never unloads.
C5_UnloadOnlyAfterRemoval ==
    [][(_model # None /\ _model' = None) =>
         \E t \in Threads : fr[t].op = "delete" /\ Steps(t) /\ gh[t].removed]_vars

\* C6: an embed issued after a successful delete of the configured model,
\* with no successful download of it since, returns the degraded shape.
C6_DegradedAfterDelete ==
    [][\A t \in Threads :
         (fr[t].op = "embed" /\ gh[t].since = "del" /\ Ends(t))
           => res'[t] = Degraded]_vars

C8_HealthAfterDownload ==
    /\ [](dl = "returned" => _model # None /\ _DIM = ModelDim)
    /\ [][\A t \in Threads :
            /\ (pc[t] = "L158" /\ Steps(t)) => _model' = fr[t].m
            /\ (pc[t] = "L159" /\ Ends(t) /\ res'[t].ok)
                 => _DIM' = res'[t].dim /\ res'[t].dim = fr[t].m.width
            /\ (fr[t].op = "health" /\ gh[t].since = "dl" /\ Ends(t))
                 => res'[t].loaded /\ res'[t].dim = ModelDim]_vars

\* A /health issued after a successful download has read _DIM.
C8_Witness ==
    \E t \in Threads :
      pc[t] = "L117" /\ gh[t].since = "dl" /\ fr[t].dim = ModelDim /\ dl = "returned"

\* C9: only a step of a delete takes the Registry from Loaded to Unloaded;
\* every step of a download, succeeding or failing, leaves a loaded Registry
\* loaded.
C9_SwapNeverUnloads ==
    [][(_model # None /\ _model' = None) =>
         \E t \in Threads : fr[t].op = "delete" /\ Steps(t)]_vars

\* A download swaps the handle while an embed request is past its test of
\* the handle it replaced.
C9_Witness ==
    \E t, u \in Threads :
      /\ pc[t] = "L159" /\ _model = fr[t].m
      /\ pc[u] = "L131" /\ gh[u].tested # 0 /\ gh[u].tested # _model.id

\* C10: every handler ends with a structured result, never with an
\* exception that leaves the handler.
C10_NoExceptionEscapes ==
    \A t \in Threads : pc[t] = "done" => res[t].status = "result"

\* C11: while nothing but startup has written the Registry, the service is
\* Loaded exactly when the configured model is cache-present; /health then
\* reports model_loaded=true with dim>0, and otherwise model_loaded=false
\* with dim=0 while every /embed is answered with the degraded shape.
C11_LoadedAtStartIffCached ==
    phase = "serving" =>
      /\ _model # None <=> _is_model_cached(MODEL_NAME)
      /\ \A t \in Threads :
           /\ (pc[t] = "done" /\ res[t].op = "health") =>
                /\ res[t].loaded <=> _is_model_cached(MODEL_NAME)
                /\ IF res[t].loaded THEN res[t].dim > 0 ELSE res[t].dim = 0
           /\ (pc[t] = "done" /\ res[t].op = "embed"
                 /\ ~_is_model_cached(MODEL_NAME)) => res[t] = Degraded
           /\ (pc[t] = "L131") => _is_model_cached(MODEL_NAME)

\* /health has answered model_loaded=true after a startup that found the
\* model cached, and an /embed with texts is running.
C11_Witness ==
    \E t, u \in Threads :
      /\ pc[t] = "done" /\ res[t].op = "health" /\ res[t].loaded /\ res[t].dim > 0
      /\ pc[u] = "L131"

\* The cache folders of the two identifiers, spelled out.
BareFolder == <<"models", "-", "-", "all-MiniLM-L6-v2">>
QualifiedFolder ==
    <<"models", "-", "-", "sentence-transformers", "-", "-", "all-MiniLM-L6-v2">>

\* C12: is_cached(id) is true exactly when the folder of id holds a
\* snapshot, or, for an id without "/", the folder of the provider-prefixed
\* id does; for an id with a provider only its own folder counts.
C12_CachedIffSnapshotAtResolvedPath ==
    [][\A t \in Threads :
         (pc[t] = "L143" /\ Ends(t) /\ res'[t].status = "result") =>
           /\ fr[t].name = MODEL_NAME =>
                (res'[t].cached <=>
                   (fs[BareFolder] = "snap" \/ fs[QualifiedFolder] = "snap"))
           /\ fr[t].name = QualifiedName =>
                (res'[t].cached <=> fs[QualifiedFolder] = "snap")
           /\ fr[t].name = << >> => ~res'[t].cached]_vars

\* status of the bare name answered cached=true from the prefixed folder alone.
C12_Witness ==
    \E t \in Threads :
      /\ pc[t] = "done" /\ res[t].op = "status" /\ res[t].cached
      /\ res[t].model = MODEL_NAME
      /\ fs[BareFolder] # "snap" /\ fs[QualifiedFolder] = "snap"

\* C13: a status, download or delete request whose name is empty after
\* trimming is answered ok=false and changes neither the Registry nor the
\* cache.
C13_EmptyNameIsRejected ==
    [][\A t \in Threads :
         (/\ pc'[t] = "done" /\ res'[t].op \in {"status", "download", "delete"}
          /\ res'[t].model = << >>
          /\ (pc[t] # "done" \/ res[t] # res'[t]))
           => ~res'[t].ok /\ RegistryKept /\ fs' = fs]_vars

\* The trimmed names a download or delete acts on.
ActionNames == {Strip(raw) : raw \in RequestNames} \ {<< >>}

\* C14: status, download and delete are idempotent on the cache: from every
\* cache state and for every name, running the operation a second time with
\* the same external outcome leaves the cache as the first run left it
\* (status leaves it untouched; a download that raises leaves it untouched).
C14_OperationsIdempotentOnCache ==
    /\ [](\A name \in ActionNames :
            /\ LoadEffect(LoadEffect(fs, name), name) = LoadEffect(fs, name)
            /\ \A outcome \in RemovalOutcomes :
                 RemoveEffect(RemoveEffect(fs, name, outcome), name, outcome)
                   = RemoveEffect(fs, name, outcome))
    /\ [][\A t \in Threads :
            /\ (pc[t] = "L143" /\ Steps(t)) => fs' = fs
            /\ (pc[t] = "L155" /\ Ends(t) /\ res'[t].error = "load") => fs' = fs]_vars

\* Two deletes of the same name have both succeeded and the folder is gone.
C14_Witness ==
    \E t, u \in Threads :
      /\ t # u /\ pc[t] = "done" /\ pc[u] = "done"
      /\ res[t].op = "delete" /\ res[u].op = "delete" /\ res[t].ok /\ res[u].ok
      /\ res[t].model = res[u].model
      /\ Folder(_model_cache_path(res[t].model)) = "absent"


\* The files save_images writes for n images, in order.
ImageFiles(n) == [i \in 1 .. n |-> ImageFile(i - 1, n)]

\* The run met an argument, template or payload error.
ArgFailure ==
    \/ ~cli.argv
    \/ cli.template \in {"missing", "notjson", "notdict"}
    \/ cli.upscale /\ cli.template \in {"plain", "badmodules"}

\* The run met a request, response, API, no-images or write error.
RunFailure ==
    \/ cli.http \in {"http", "nobody", "nonjson"}
    \/ cli.http = "ok" /\ (~cli.r.dict \/ cli.r.error \/ cli.r.images = 0)
    \/ cli.raised

\* C15: main returns 0 only when every image of the response is written and
\* stdout holds exactly one path per saved image; an argument, template or
\* payload error returns 2, a request, response, API, no-images or write
\* error returns 1, and a run that returns non-zero wrote nothing to stdout.
C15_ExitCodeAndStdout ==
    cli.pc = "exit" =>
        /\ cli.exit \in {0, EXIT_RUN, EXIT_ARG}
        /\ cli.exit = 0 =>
              /\ ~ArgFailure /\ ~RunFailure
              /\ cli.r.images >= 1
              /\ cli.saved = ImageFiles(cli.r.images)
              /\ cli.stdout = cli.saved
        /\ ArgFailure => cli.exit = EXIT_ARG
        /\ (~ArgFailure /\ RunFailure) => cli.exit = EXIT_RUN
        /\ cli.exit # 0 => cli.stdout = << >> /\ (ArgFailure \/ RunFailure)

\* A write error on the second of several images: one file is on disk,
\* the run returns 1 and stdout is empty.
C15_Witness ==
    /\ cli.pc = "exit" /\ cli.exit = EXIT_RUN
    /\ cli.raised /\ Len(cli.saved) = 1 /\ cli.r.images >= 2
    /\ cli.stdout = << >>



\* Worker t returns a successful delete while no other worker runs a
\* download or a delete.
DeleteSucceedsAlone(t) ==
    /\ Ends(t)
    /\ res'[t].op = "delete" /\ res'[t].status = "result" /\ res'[t].ok
    /\ \A u \in Threads \ {t} : fr[u].op \notin {"download", "delete"}

\* C16: after a successful delete the Registry is Loaded only if the
\* configured model is cache-present: a delete that removes the folder the
\* active model resides in, under any cache-equivalent name, unloads it.
C16_LoadedImpliesCachedAfterDelete ==
    [][\A t \in Threads :
          (DeleteSucceedsAlone(t) /\ _model' # None)
              => (_is_model_cached(MODEL_NAME))']_vars


\* C17: an /embed with non-empty texts that runs while the configured model
\* is deleted ends with ok=true or with the degraded response; it never
\* dereferences an absent handle.
C17_EmbedNeverDereferencesAbsentHandle ==
    [][\A t \in Threads :
          (fr[t].op = "embed" /\ fr[t].n > 0 /\ Ends(t))
              => /\ res'[t].error # "AttributeError"
                 /\ (res'[t].status = "result" /\ ~res'[t].ok) => res'[t] = Degraded]_vars


\* No download and no delete is mid-execution.
Quiescent == \A t \in Threads : fr[t].op \notin {"download", "delete"}

\* C18: while no download or delete is mid-execution, the Registry is either
\* absent with dimension 0, or present with a positive dimension equal to
\* the true width of the handle it holds.
C18_RegistryPairWhenQuiescent ==
    (phase = "serving" /\ Quiescent /\ (_model = None \/ ~_model.bad)) =>
        \/ _model = None /\ _DIM = 0
        \/ _model # None /\ _DIM > 0 /\ _DIM = _model.width


\* C19: when the configured model is cache-present at start and the service
\* comes to serve, it holds the loaded model with its true width; when the
\* load fails the startup fails, and a failed startup serves nothing.
C19_FailedLoadFailsStartup ==
    [][/\ (phase = "boot" /\ _is_model_cached(MODEL_NAME) /\ phase' = "serving")
           => (_model' # None /\ ~_model'.bad /\ _DIM' = _model'.width)
       /\ phase # "crashed"]_vars

\* The model was cache-present and the startup failed.
C19_Witness ==
    /\ phase = "crashed"
    /\ _is_model_cached(MODEL_NAME)
    /\ \A t \in Threads : pc[t] = "idle"


\* C20: when a delete of name gets past its removal (lines 174-175) to answer
\* ok=true, cached=false, the Cache Inspector finds name not cached, so a
\* status(name) with no download in between reports cached=false.
C20_StatusAfterDeleteNotCached ==
    [][\A t \in Threads :
          (/\ fr[t].op = "delete" /\ pc[t] = "L174" /\ Steps(t)
           /\ (pc'[t] = "L178" \/ res'[t].ok))
              => ~(_is_model_cached(fr[t].name))']_vars

=============================================================================
